---- MODULE Spec2Model ----
(***************************************************************************)
(* Model of `git lfs migrate export` (commands/command_migrate_export.go): *)
(* the orchestrator migrateExportCommand, the two callbacks it hands to    *)
(* the history rewriter (BlobFn, TreeCallbackFn) and the construction of   *)
(* the canonical .gitattributes lines (trackedFromExportFilter).           *)
(*                                                                         *)
(* Text is modelled as follows.  A pattern is a sequence of one-character  *)
(* strings.  An attribute line is a string.  The contents of a blob are a  *)
(* sequence of tokens, each either a newline "\n" or a non-empty fragment  *)
(* without newline; no two fragments are adjacent.  An object id is        *)
(* content-derived and is modelled by the contents themselves.             *)
(***************************************************************************)
EXTENDS Naturals, Sequences, FiniteSets, TLC

VARIABLES
    pc,         \* position of migrateExportCommand
    hist,       \* the positions it went through, in order
    filter,     \* rewriter.Filter(): [include, exclude], sequences of patterns
    bare,       \* what git.IsBare() reports
    dbOpen,     \* the object database handle is open
    dbOpened,   \* getObjectDatabase() succeeded at some point
    db,         \* objects stored in the object database
    dbLog,      \* every access to the object database: [by, op, obj]
    tracked,    \* the ordered set built by trackedFromExportFilter
    inflight,   \* per engine worker: the root TreeCallbackFn call in progress
    last,       \* the callback invocation that returned last
    calls,      \* number of callback invocations started
    failed,     \* some smudge, attribute read or attribute write failed
    engineErr,  \* a callback returned an error to the engine
    refs,       \* where the refs point: "original" or "rewritten"
    checkout,   \* "none", "ok" or "failed": git.Checkout("", nil, true)
    exit,       \* "running", "ok" or "fatal"
    fnIn,       \* input of the function under study (SpecBuild, SpecMerge)
    fnOut,      \* its results so far
    fnStage     \* how far it was applied

vars == <<pc, hist, filter, bare, dbOpen, dbOpened, db, dbLog, tracked, inflight,
          last, calls, failed, engineErr, refs, checkout, exit, fnIn, fnOut, fnStage>>

cmdVars == <<pc, hist, filter, bare, dbOpen, dbOpened, db, dbLog, tracked, inflight,
             last, calls, failed, engineErr, refs, checkout, exit>>

fnVars == <<fnIn, fnOut, fnStage>>

(***************************************************************************)
(* Bounds.                                                                 *)
(***************************************************************************)
MaxCalls == 3        \* callback invocations the engine makes in one run
MaxInclude == 2      \* include patterns of a filter (SpecBuild)
MaxExclude == 1      \* exclude patterns of a filter (SpecBuild)
MaxAttrLines == 2    \* lines of a pre-existing .gitattributes (SpecMerge)

(***************************************************************************)
(* Sequences.                                                              *)
(***************************************************************************)
Range(s) == {s[i] : i \in 1..Len(s)}

SeqsUpTo(S, n) == UNION {[1..k -> S] : k \in 0..n}

NoDup(s) == \A i, j \in 1..Len(s) : i # j => s[i] # s[j]

FirstIdx(s, e) == CHOOSE i \in 1..Len(s) : s[i] = e /\ \A j \in 1..(i - 1) : s[j] # e

(***************************************************************************)
(* tools.OrderedSet: a sequence of unique strings in insertion order.      *)
(***************************************************************************)
NewOrderedSet == <<>>

Contains(s, e) == \E i \in 1..Len(s) : s[i] = e

Add(s, e) == IF Contains(s, e) THEN s ELSE Append(s, e)

RECURSIVE AddAll(_, _)
AddAll(s, es) == IF es = <<>> THEN s ELSE AddAll(Add(s, Head(es)), Tail(es))

Clone(s) == [i \in 1..Len(s) |-> s[i]]

Union(s, other) == AddAll(AddAll(NewOrderedSet, s), other)

(***************************************************************************)
(* escapeAttrPattern: space, '#', '!' and backslash each get a backslash   *)
(* in front, in one pass from left to right.                               *)
(***************************************************************************)
EscapeChars == {" ", "#", "!", "\\"}

RECURSIVE escapeAttrPattern(_)
escapeAttrPattern(unescaped) ==
    IF unescaped = <<>> THEN ""
    ELSE (IF Head(unescaped) \in EscapeChars THEN "\\" \o Head(unescaped)
          ELSE Head(unescaped))
         \o escapeAttrPattern(Tail(unescaped))

(***************************************************************************)
(* trackedFromExportFilter: one line per include pattern, then one line    *)
(* per exclude pattern, added to a fresh ordered set.                      *)
(***************************************************************************)
ExportLine(include) == escapeAttrPattern(include) \o " text -filter -merge -diff"

TrackLine(exclude) == escapeAttrPattern(exclude) \o " filter=lfs diff=lfs merge=lfs -text"

RECURSIVE AddIncludes(_, _)
AddIncludes(set, includes) ==
    IF includes = <<>> THEN set
    ELSE AddIncludes(Add(set, ExportLine(Head(includes))), Tail(includes))

RECURSIVE AddExcludes(_, _)
AddExcludes(set, excludes) ==
    IF excludes = <<>> THEN set
    ELSE AddExcludes(Add(set, TrackLine(Head(excludes))), Tail(excludes))

\* Mutant: the exclude loop runs before the include loop.
trackedFromExportFilterExcludesFirst(f) ==
    AddIncludes(AddExcludes(NewOrderedSet, f.exclude), f.include)

trackedFromExportFilter(f) ==
    AddExcludes(AddIncludes(NewOrderedSet, f.include), f.exclude)

(***************************************************************************)
(* odb.Blob and its contents.                                              *)
(***************************************************************************)
RECURSIVE ByteLen(_)
ByteLen(contents) ==
    IF contents = <<>> THEN 0 ELSE Len(Head(contents)) + ByteLen(Tail(contents))

Blob(contents) == [contents |-> contents, size |-> ByteLen(contents)]

NoBlob == [contents |-> <<>>, size |-> 0]

BlobObject(contents) == [type |-> "blob", data |-> contents]

TreeObject(t) == [type |-> "tree", data |-> t]

(***************************************************************************)
(* filepath.Base on a path given as a sequence of "/" and name fragments.  *)
(***************************************************************************)
RECURSIVE StripTrailingSlashes(_)
StripTrailingSlashes(path) ==
    IF path # <<>> /\ path[Len(path)] = "/"
    THEN StripTrailingSlashes(SubSeq(path, 1, Len(path) - 1))
    ELSE path

RECURSIVE JoinStr(_)
JoinStr(frags) == IF frags = <<>> THEN "" ELSE Head(frags) \o JoinStr(Tail(frags))

AfterLastSlash(path) ==
    LET S == {i \in 1..Len(path) : path[i] = "/"}
    IN  IF S = {} THEN path
        ELSE SubSeq(path, (CHOOSE i \in S : \A j \in S : j <= i) + 1, Len(path))

Base(path) ==
    IF path = <<>> THEN "."
    ELSE LET s == StripTrailingSlashes(path)
         IN  IF s = <<>> THEN "/" ELSE JoinStr(AfterLastSlash(s))

(***************************************************************************)
(* BlobFn.  sm is what smudge() does on this call: [err, bytes].           *)
(***************************************************************************)
AttrName == ".gitattributes"

\* Mutant: the whole path, not its base name, is compared.
IsAttrFileWholePath(path) == JoinStr(path) = AttrName

IsAttrFile(path) == Base(path) = AttrName

\* Mutant: the error of smudge() is dropped and the input blob returned.
BlobFnErrorDropped(path, b, sm) ==
    IF IsAttrFile(path) THEN [blob |-> b, err |-> FALSE, smudged |-> FALSE]
    ELSE IF sm.err THEN [blob |-> b, err |-> FALSE, smudged |-> TRUE]
    ELSE [blob |-> Blob(sm.bytes), err |-> FALSE, smudged |-> TRUE]

BlobFn(path, b, sm) ==
    IF IsAttrFile(path) THEN [blob |-> b, err |-> FALSE, smudged |-> FALSE]
    ELSE IF sm.err THEN [blob |-> NoBlob, err |-> TRUE, smudged |-> TRUE]
    ELSE [blob |-> Blob(sm.bytes), err |-> FALSE, smudged |-> TRUE]

(***************************************************************************)
(* odb.Tree: a sequence of entries [name, filemode, oid], kept in name     *)
(* order.                                                                  *)
(***************************************************************************)
AttrFilemode == 33188    \* 0100644

NameRank(name) == IF name = AttrName THEN 0 ELSE IF name = "f.bin" THEN 1 ELSE 2

EntryIdx(t, name) ==
    IF \E i \in 1..Len(t) : t[i].name = name
    THEN CHOOSE i \in 1..Len(t) : t[i].name = name /\ \A j \in 1..(i - 1) : t[j].name # name
    ELSE 0

\* Tree.Merge: the entry of that name is replaced, or the entry is added in
\* name order.
Merge(t, e) ==
    IF EntryIdx(t, e.name) # 0 THEN [t EXCEPT ![EntryIdx(t, e.name)] = e]
    ELSE LET k == Cardinality({i \in 1..Len(t) : NameRank(t[i].name) < NameRank(e.name)})
         IN  SubSeq(t, 1, k) \o <<e>> \o SubSeq(t, k + 1, Len(t))

(***************************************************************************)
(* trackedFromAttrs and trackedToBlob.                                     *)
(***************************************************************************)
\* bufio.Scanner with ScanLines: the lines of the contents, the last one
\* with or without its newline.
RECURSIVE ScanFrom(_, _, _)
ScanFrom(contents, cur, has) ==
    IF contents = <<>> THEN (IF has THEN <<cur>> ELSE <<>>)
    ELSE IF Head(contents) = "\n" THEN <<cur>> \o ScanFrom(Tail(contents), "", FALSE)
    ELSE ScanFrom(Tail(contents), cur \o Head(contents), TRUE)

ScanLines(contents) == ScanFrom(contents, "", FALSE)

\* trackedFromAttrs after the blob was read: every line is added to a new set.
ParseAttrs(contents) == AddAll(NewOrderedSet, ScanLines(contents))

\* trackedToBlob: every line followed by a newline.
RECURSIVE AttrsText(_)
AttrsText(set) ==
    IF set = <<>> THEN <<>>
    ELSE (IF Head(set) = "" THEN <<"\n">> ELSE <<Head(set), "\n">>) \o AttrsText(Tail(set))

(***************************************************************************)
(* TreeCallbackFn.                                                         *)
(***************************************************************************)
\* Mutant: the root is taken to be the empty path.
IsRootEmptyPath(path) == path = ""

\* Mutant: the test for the root is missing.
IsRootAlways(path) == TRUE

IsRoot(path) == path = "/"

\* Mutant: the receiver and the argument of Union are exchanged.
MergedAttrsOursFirst(theirs, ours) == Union(Clone(ours), theirs)

\* Mutant: the tracked lines are appended without looking for duplicates.
MergedAttrsAppended(theirs, ours) == theirs \o ours

MergedAttrs(theirs, ours) == Union(Clone(theirs), ours)

\* The tree returned at the root, given the id of the blob written.
RootTree(t, oid) == Merge(t, [name |-> AttrName, filemode |-> AttrFilemode, oid |-> oid])

(***************************************************************************)
(* The repository the command runs on, and what the engine can hand to     *)
(* the callbacks.                                                          *)
(***************************************************************************)
PatA == <<"a">>

PatPsd == <<"*", ".", "p", "s", "d">>

LineA == "a text -filter -merge -diff"

LinePsd == "*.psd filter=lfs diff=lfs merge=lfs -text"

Filters ==
    { [include |-> <<>>, exclude |-> <<>>],
      [include |-> <<>>, exclude |-> <<PatPsd>>],
      [include |-> <<PatA>>, exclude |-> <<>>],
      [include |-> <<PatA>>, exclude |-> <<PatPsd>>] }

AttrFiles ==
    { <<LinePsd, "\n">>,
      <<LineA, "\n", "#c">>,
      <<"#c", "\n", "#c", "\n">> }

PointerContents == <<"version https://git-lfs.github.com/spec/v1", "\n">>

BlobContents == {PointerContents, <<"raw">>}

FileEntry == [name |-> "f.bin", filemode |-> 33188, oid |-> PointerContents]

TreeWithAttrs(c) == <<[name |-> AttrName, filemode |-> 33188, oid |-> c], FileEntry>>

Trees == {<<FileEntry>>} \cup {TreeWithAttrs(c) : c \in AttrFiles}

TreePaths == {"/", "/sub"}

BlobPaths ==
    { <<"f.bin">>,
      <<".gitattributes">>,
      <<"sub", "/", ".gitattributes">>,
      <<"sub", "/", "x.gitattributes">>,
      <<".gitattributes", "/", "f.bin">> }

SmudgeOutcomes ==
    { [err |-> TRUE, bytes |-> <<>>],
      [err |-> FALSE, bytes |-> <<"real bytes">>] }

Workers == {"w1", "w2"}

Idle == [busy |-> FALSE, path |-> "", tree |-> <<>>, theirs |-> <<>>, log |-> {}]

NoCall ==
    [kind |-> "none", path |-> "", in |-> <<>>, out |-> <<>>, err |-> FALSE,
     smudged |-> FALSE, theirs |-> <<>>, lines |-> <<>>, log |-> {}, committed |-> TRUE]

InitialObjects ==
    {BlobObject(c) : c \in AttrFiles \cup BlobContents} \cup {TreeObject(t) : t \in Trees}

FnIdle == /\ fnIn = <<>>
          /\ fnOut = <<>>
          /\ fnStage = "none"

Init ==
    /\ pc = "Idle"
    /\ hist = <<"Idle">>
    /\ filter \in Filters
    /\ bare \in BOOLEAN
    /\ dbOpen = FALSE
    /\ dbOpened = FALSE
    /\ db = InitialObjects
    /\ dbLog = {}
    /\ tracked = NewOrderedSet
    /\ inflight = [w \in Workers |-> Idle]
    /\ last = NoCall
    /\ calls = 0
    /\ failed = FALSE
    /\ engineErr = FALSE
    /\ refs = "original"
    /\ checkout = "none"
    /\ exit = "running"
    /\ FnIdle

(***************************************************************************)
(* migrateExportCommand.                                                   *)
(***************************************************************************)
Goto(p) == /\ pc' = p
           /\ hist' = Append(hist, p)

\* ExitWithError: the process is terminated with a fatal message.  Nothing
\* else of the command runs; deferred calls are not run by a process exit.
ExitWithError == /\ Goto("Failed")
                 /\ exit' = "fatal"

\* A normal return of the command runs its deferred calls: db.Close().
DeferredClose(open) == FALSE

Return == /\ Goto("Done")
          /\ exit' = "ok"
          /\ dbOpen' = DeferredClose(dbOpen)

Start ==
    /\ pc = "Idle"
    /\ Goto("Validating")
    /\ UNCHANGED <<filter, bare, dbOpen, dbOpened, db, dbLog, tracked, inflight, last,
                   calls, failed, engineErr, refs, checkout, exit, fnVars>>

\* getObjectDatabase() and the deferred db.Close().
OpenDb ==
    /\ pc = "Validating"
    /\ ~dbOpened
    /\ \E ok \in BOOLEAN :
         IF ok
         THEN /\ dbOpen' = TRUE
              /\ dbOpened' = TRUE
              /\ UNCHANGED <<pc, hist, exit>>
         ELSE /\ ExitWithError
              /\ UNCHANGED <<dbOpen, dbOpened>>
    /\ UNCHANGED <<filter, bare, db, dbLog, tracked, inflight, last, calls, failed,
                   engineErr, refs, checkout, fnVars>>

\* Mutant: the test is "< 0", which no length satisfies.
IncludeMissingNever(f) == Len(f.include) < 0

IncludeMissing(f) == Len(f.include) <= 0

\* getHistoryRewriter, the check of the include list, trackedFromExportFilter.
Validate ==
    /\ pc = "Validating"
    /\ dbOpened
    /\ IF IncludeMissing(filter)
       THEN /\ ExitWithError
            /\ UNCHANGED tracked
       ELSE /\ tracked' = trackedFromExportFilter(filter)
            /\ Goto("Rewriting")
            /\ UNCHANGED exit
    /\ UNCHANGED <<filter, bare, dbOpen, dbOpened, db, dbLog, inflight, last, calls,
                   failed, engineErr, refs, checkout, fnVars>>

(***************************************************************************)
(* The history rewriter inside migrate(): it reads objects, invokes the    *)
(* callbacks on its workers, writes what they return, and updates the refs *)
(* only if nothing failed.                                                 *)
(***************************************************************************)
CanReturn == last.committed \/ last.err

MayCall == /\ pc = "Rewriting"
           /\ calls < MaxCalls
           /\ ~engineErr

EngineRead(obj) == [by |-> "engine", op |-> "read", obj |-> obj]

\* One invocation of BlobFn.
BlobCall ==
    /\ MayCall
    /\ CanReturn
    /\ \E path \in BlobPaths, c \in BlobContents, sm \in SmudgeOutcomes :
         LET b == Blob(c)
             r == BlobFn(path, b, sm)
         IN  /\ last' = [kind |-> "blob", path |-> path, in |-> b, out |-> r.blob,
                         err |-> r.err, smudged |-> r.smudged, theirs |-> <<>>,
                         lines |-> <<>>, log |-> {}, committed |-> FALSE]
             /\ failed' = (failed \/ (r.smudged /\ sm.err))
             /\ engineErr' = (engineErr \/ r.err)
             /\ dbLog' = dbLog \cup {EngineRead(BlobObject(c))}
    /\ calls' = calls + 1
    /\ UNCHANGED <<pc, hist, filter, bare, dbOpen, dbOpened, db, tracked, inflight,
                   refs, checkout, exit, fnVars>>

\* TreeCallbackFn up to and including trackedFromAttrs: a tree that is not
\* the root is returned at once; at the root the .gitattributes entry, if
\* there is one, is read from the database and parsed.
TreeCall ==
    /\ MayCall
    /\ \E w \in Workers, path \in TreePaths, t \in Trees, readOk \in BOOLEAN :
         LET idx == EntryIdx(t, AttrName)
             rd == [by |-> "TreeCallbackFn", op |-> "read", obj |-> BlobObject(t[idx].oid)]
             ret(err, log) ==
                 [kind |-> "tree", path |-> path, in |-> t, out |-> IF err THEN <<>> ELSE t,
                  err |-> err, smudged |-> FALSE, theirs |-> <<>>, lines |-> <<>>,
                  log |-> log, committed |-> FALSE]
         IN  /\ ~inflight[w].busy
             /\ IF ~IsRoot(path)
                THEN /\ CanReturn
                     /\ readOk
                     /\ last' = ret(FALSE, {})
                     /\ dbLog' = dbLog \cup {EngineRead(TreeObject(t))}
                     /\ UNCHANGED <<inflight, failed, engineErr>>
                ELSE IF idx = 0
                THEN /\ readOk
                     /\ inflight' = [inflight EXCEPT ![w] =
                            [busy |-> TRUE, path |-> path, tree |-> t,
                             theirs |-> NewOrderedSet, log |-> {}]]
                     /\ dbLog' = dbLog \cup {EngineRead(TreeObject(t))}
                     /\ UNCHANGED <<last, failed, engineErr>>
                ELSE IF readOk /\ BlobObject(t[idx].oid) \in db
                THEN /\ inflight' = [inflight EXCEPT ![w] =
                            [busy |-> TRUE, path |-> path, tree |-> t,
                             theirs |-> ParseAttrs(t[idx].oid), log |-> {rd}]]
                     /\ dbLog' = dbLog \cup {EngineRead(TreeObject(t)), rd}
                     /\ UNCHANGED <<last, failed, engineErr>>
                ELSE /\ CanReturn
                     /\ last' = ret(TRUE, {})
                     /\ failed' = TRUE
                     /\ engineErr' = TRUE
                     /\ dbLog' = dbLog \cup {EngineRead(TreeObject(t))}
                     /\ UNCHANGED inflight
    /\ calls' = calls + 1
    /\ UNCHANGED <<pc, hist, filter, bare, dbOpen, dbOpened, db, tracked, refs,
                   checkout, exit, fnVars>>

\* The rest of TreeCallbackFn at the root: trackedToBlob writes the union
\* as a new blob, and the tree is returned with that blob as .gitattributes.
TreeFinish ==
    /\ pc = "Rewriting"
    /\ CanReturn
    /\ \E w \in Workers, writeOk \in BOOLEAN :
         LET c == inflight[w]
             lines == MergedAttrs(c.theirs, tracked)
             text == AttrsText(lines)
             wr == [by |-> "TreeCallbackFn", op |-> "write", obj |-> BlobObject(text)]
         IN  /\ c.busy
             /\ inflight' = [inflight EXCEPT ![w] = Idle]
             /\ IF writeOk
                THEN /\ db' = db \cup {BlobObject(text)}
                     /\ dbLog' = dbLog \cup {wr}
                     /\ last' = [kind |-> "tree", path |-> c.path, in |-> c.tree,
                                 out |-> RootTree(c.tree, text), err |-> FALSE,
                                 smudged |-> FALSE, theirs |-> c.theirs, lines |-> lines,
                                 log |-> c.log \cup {wr}, committed |-> FALSE]
                     /\ UNCHANGED <<failed, engineErr>>
                ELSE /\ last' = [kind |-> "tree", path |-> c.path, in |-> c.tree,
                                 out |-> <<>>, err |-> TRUE, smudged |-> FALSE,
                                 theirs |-> c.theirs, lines |-> lines, log |-> c.log,
                                 committed |-> FALSE]
                     /\ failed' = TRUE
                     /\ engineErr' = TRUE
                     /\ UNCHANGED <<db, dbLog>>
    /\ UNCHANGED <<pc, hist, filter, bare, dbOpen, dbOpened, tracked, calls, refs,
                   checkout, exit, fnVars>>

\* The engine stores the blob or tree a callback returned.
EngineCommit ==
    /\ pc = "Rewriting"
    /\ last.kind # "none"
    /\ ~last.err
    /\ ~last.committed
    /\ LET obj == IF last.kind = "blob" THEN BlobObject(last.out.contents)
                  ELSE TreeObject(last.out)
       IN  /\ db' = db \cup {obj}
           /\ dbLog' = dbLog \cup {[by |-> "engine", op |-> "write", obj |-> obj]}
    /\ last' = [last EXCEPT !.committed = TRUE]
    /\ UNCHANGED <<pc, hist, filter, bare, dbOpen, dbOpened, tracked, inflight, calls,
                   failed, engineErr, refs, checkout, exit, fnVars>>

\* Rewrite() returns without error: with UpdateRefs the refs are moved.
RewriteDone ==
    /\ pc = "Rewriting"
    /\ ~engineErr
    /\ CanReturn
    /\ \A w \in Workers : ~inflight[w].busy
    /\ refs' = "rewritten"
    /\ Goto("Succeeded")
    /\ UNCHANGED <<filter, bare, dbOpen, dbOpened, db, dbLog, tracked, inflight, last,
                   calls, failed, engineErr, checkout, exit, fnVars>>

\* Rewrite() returns the error of a callback: migrate() calls ExitWithError.
RewriteFailed ==
    /\ pc = "Rewriting"
    /\ engineErr
    /\ ExitWithError
    /\ UNCHANGED <<filter, bare, dbOpen, dbOpened, db, dbLog, tracked, inflight, last,
                   calls, failed, engineErr, refs, checkout, fnVars>>

\* Mutant: the checkout is made whatever git.IsBare() reports.
ShouldCheckoutAlways(isBare) == TRUE

ShouldCheckout(isBare) == ~isBare

\* After migrate(): git.IsBare() decides between the checkout and the return.
AfterMigrate ==
    /\ pc = "Succeeded"
    /\ IF ShouldCheckout(bare)
       THEN /\ Goto("Checkout")
            /\ UNCHANGED <<exit, dbOpen>>
       ELSE Return
    /\ UNCHANGED <<filter, bare, dbOpened, db, dbLog, tracked, inflight, last, calls,
                   failed, engineErr, refs, checkout, fnVars>>

\* git.Checkout("", nil, true), then the return or ExitWithError.
Checkout ==
    /\ pc = "Checkout"
    /\ \E ok \in BOOLEAN :
         IF ok
         THEN /\ checkout' = "ok"
              /\ Return
         ELSE /\ checkout' = "failed"
              /\ ExitWithError
              /\ UNCHANGED dbOpen
    /\ UNCHANGED <<filter, bare, dbOpened, db, dbLog, tracked, inflight, last, calls,
                   failed, engineErr, refs, fnVars>>

\* The process has exited after ExitWithError.
ProcessExit ==
    /\ pc = "Failed"
    /\ Goto("Done")
    /\ UNCHANGED <<filter, bare, dbOpen, dbOpened, db, dbLog, tracked, inflight, last,
                   calls, failed, engineErr, refs, checkout, exit, fnVars>>

Next ==
    \/ Start
    \/ OpenDb
    \/ Validate
    \/ BlobCall
    \/ TreeCall
    \/ TreeFinish
    \/ EngineCommit
    \/ RewriteDone
    \/ RewriteFailed
    \/ AfterMigrate
    \/ Checkout
    \/ ProcessExit

Spec == Init /\ [][Next]_vars

(***************************************************************************)
(* trackedFromExportFilter on its own: the filter is drawn from bounded    *)
(* sets of patterns, some of them with characters that are escaped.        *)
(***************************************************************************)
PatSpace == <<"a", " ", "b">>

PatEscaped == <<"a", "\\", " ", "b">>

PatHash == <<"#", "!">>

PatPool == {PatA, PatSpace, PatEscaped, PatHash}

CmdIdle ==
    /\ pc = "Idle"
    /\ hist = <<"Idle">>
    /\ filter = [include |-> <<>>, exclude |-> <<>>]
    /\ bare = FALSE
    /\ dbOpen = FALSE
    /\ dbOpened = FALSE
    /\ db = InitialObjects
    /\ dbLog = {}
    /\ tracked = NewOrderedSet
    /\ inflight = [w \in Workers |-> Idle]
    /\ last = NoCall
    /\ calls = 0
    /\ failed = FALSE
    /\ engineErr = FALSE
    /\ refs = "original"
    /\ checkout = "none"
    /\ exit = "running"

InitBuild ==
    /\ CmdIdle
    /\ fnIn \in [include : SeqsUpTo(PatPool, MaxInclude),
                 exclude : SeqsUpTo(PatPool, MaxExclude)]
    /\ fnOut = <<>>
    /\ fnStage = "input"

Build ==
    /\ fnStage = "input"
    /\ fnOut' = trackedFromExportFilter(fnIn)
    /\ fnStage' = "built"
    /\ UNCHANGED <<fnIn, cmdVars>>

NextBuild == Build

SpecBuild == InitBuild /\ [][NextBuild]_vars

(***************************************************************************)
(* TreeCallbackFn at the root on its own, applied to a tree and then to    *)
(* the tree it returned, as a second run of the command does.              *)
(***************************************************************************)
LinePool == {"", "#c", LineA, LinePsd}

\* The contents of a file with the lines ls, the last one with or without
\* its newline.
RECURSIVE TextOf(_, _)
TextOf(ls, trail) ==
    IF ls = <<>> THEN <<>>
    ELSE (IF Head(ls) = "" THEN <<>> ELSE <<Head(ls)>>)
         \o (IF Len(ls) > 1 \/ trail THEN <<"\n">> ELSE <<>>)
         \o TextOf(Tail(ls), trail)

AttrContents == {TextOf(ls, trail) : ls \in SeqsUpTo(LinePool, MaxAttrLines), trail \in BOOLEAN}

MergeTrees == {<<FileEntry>>} \cup {TreeWithAttrs(c) : c \in AttrContents}

MergeFilters ==
    { [include |-> <<PatA>>, exclude |-> <<>>],
      [include |-> <<PatA>>, exclude |-> <<PatPsd>>],
      [include |-> <<PatSpace, PatA>>, exclude |-> <<PatHash>>] }

\* TreeCallbackFn("/", t) when no read or write fails.
TreeCallbackFnRoot(t, ours) ==
    LET idx == EntryIdx(t, AttrName)
        theirs == IF idx = 0 THEN NewOrderedSet ELSE ParseAttrs(t[idx].oid)
    IN  RootTree(t, AttrsText(MergedAttrs(theirs, ours)))

InitMerge ==
    /\ CmdIdle
    /\ fnIn \in [tree : MergeTrees, filter : MergeFilters]
    /\ fnOut = <<>>
    /\ fnStage = "input"

MergeOnce ==
    /\ fnStage = "input"
    /\ fnOut' = <<TreeCallbackFnRoot(fnIn.tree, trackedFromExportFilter(fnIn.filter))>>
    /\ fnStage' = "once"
    /\ UNCHANGED <<fnIn, cmdVars>>

MergeAgain ==
    /\ fnStage = "once"
    /\ fnOut' = Append(fnOut, TreeCallbackFnRoot(fnOut[1], trackedFromExportFilter(fnIn.filter)))
    /\ fnStage' = "twice"
    /\ UNCHANGED <<fnIn, cmdVars>>

NextMerge ==
    \/ MergeOnce
    \/ MergeAgain

SpecMerge == InitMerge /\ [][NextMerge]_vars

(***************************************************************************)
(* What the claims are stated with.                                        *)
(***************************************************************************)
\* The lines of blob contents, told from the places of the newlines: line k
\* is what stands between newline k-1 and newline k (or the end).
NewlinePos(c) == {i \in 1..Len(c) : c[i] = "\n"}

LineStart(c, k) ==
    IF k = 1 THEN 1
    ELSE (CHOOSE i \in NewlinePos(c) :
              Cardinality({j \in NewlinePos(c) : j < i}) = k - 2) + 1

LinesOf(c) ==
    LET n == Cardinality(NewlinePos(c))
                 + (IF c # <<>> /\ c[Len(c)] # "\n" THEN 1 ELSE 0)
    IN  [k \in 1..n |-> IF LineStart(c, k) <= Len(c) /\ c[LineStart(c, k)] # "\n"
                        THEN c[LineStart(c, k)] ELSE ""]

ExistingLines(t) ==
    IF EntryIdx(t, AttrName) = 0 THEN <<>> ELSE LinesOf(t[EntryIdx(t, AttrName)].oid)

\* The lines of a filter without duplicate patterns, written out.
CanonicalOf(f) ==
    [i \in 1..(Len(f.include) + Len(f.exclude)) |->
        IF i <= Len(f.include)
        THEN escapeAttrPattern(f.include[i]) \o " text -filter -merge -diff"
        ELSE escapeAttrPattern(f.exclude[i - Len(f.include)])
                 \o " filter=lfs diff=lfs merge=lfs -text"]

\* W is the lines E without repetition, in their order of first appearance,
\* followed by the lines of C that E lacks, in the order of C.
IsLeftUnion(W, E, C) ==
    LET n == Cardinality(Range(E))
    IN  /\ NoDup(W)
        /\ Range(W) = Range(E) \cup Range(C)
        /\ \A i \in 1..Len(W) : (i <= n) <=> (W[i] \in Range(E))
        /\ \A i, j \in 1..Len(W) :
             (i < j /\ j <= n) => FirstIdx(E, W[i]) < FirstIdx(E, W[j])
        /\ \A i, j \in 1..Len(W) :
             (n < i /\ i < j) => FirstIdx(C, W[i]) < FirstIdx(C, W[j])

RootReturned == last.kind = "tree" /\ ~last.err /\ last.path = "/"

WritesOf(log) == {e \in log : e.op = "write"}

(***************************************************************************)
(* C1: with an empty include list the command fails before the engine is   *)
(* invoked: no object is read or written, no callback is invoked, no ref   *)
(* is moved and no checkout is made, and the command ends with the fatal   *)
(* error.                                                                  *)
(***************************************************************************)
C1_EmptyIncludeTouchesNothing ==
    Len(filter.include) = 0 =>
        /\ calls = 0
        /\ last.kind = "none"
        /\ \A w \in Workers : ~inflight[w].busy
        /\ dbLog = {}
        /\ db = InitialObjects
        /\ refs = "original"
        /\ checkout = "none"
        /\ pc \in {"Idle", "Validating", "Failed", "Done"}
        /\ exit # "ok"
        /\ (pc = "Done" => exit = "fatal")

C1_Witness ==
    /\ Len(filter.include) = 0
    /\ Len(filter.exclude) > 0
    /\ dbOpened
    /\ pc = "Done"
    /\ exit = "fatal"

(***************************************************************************)
(* C2: every TreeCallbackFn call at "/" that returns a tree, whatever      *)
(* calls came before it or run beside it, writes as .gitattributes the     *)
(* lines of the tree's own .gitattributes (none if there is no such        *)
(* entry) in their order, then the lines of the canonical set that are     *)
(* not among them, in canonical order, no line twice; and the canonical    *)
(* set is still what was built from the filter when the command started.   *)
(***************************************************************************)
C2_RootWritesLeftUnion ==
    /\ calls > 0 => tracked = CanonicalOf(filter)
    /\ RootReturned =>
         LET idx == EntryIdx(last.out, AttrName)
         IN  /\ IsLeftUnion(last.lines, ExistingLines(last.in), CanonicalOf(filter))
             /\ idx # 0
             /\ LinesOf(last.out[idx].oid) = last.lines
             /\ BlobObject(last.out[idx].oid) \in db
             /\ \A i \in 1..Len(last.out) : i # idx => last.out[i].name # AttrName

C2_Witness ==
    /\ RootReturned
    /\ calls >= 2
    /\ \E w \in Workers : inflight[w].busy
    /\ \E l \in Range(tracked) : l \in Range(ExistingLines(last.in))
    /\ \E l \in Range(tracked) : l \notin Range(ExistingLines(last.in))
    /\ \E l \in Range(ExistingLines(last.in)) : l \notin Range(tracked)

(***************************************************************************)
(* C3: once a smudge in BlobFn, or a read or write of the attributes in    *)
(* TreeCallbackFn, has failed, the refs stay where they were, the rewrite  *)
(* never counts as succeeded, and the command can only end in the fatal    *)
(* error.                                                                  *)
(***************************************************************************)
C3_FailureLeavesRefs ==
    failed =>
        /\ refs = "original"
        /\ engineErr
        /\ pc \in {"Rewriting", "Failed", "Done"}
        /\ checkout = "none"
        /\ exit # "ok"
        /\ (pc = "Done" => exit = "fatal")

C3_Witness ==
    /\ failed
    /\ last.kind = "blob"
    /\ last.err
    /\ calls >= 2
    /\ pc = "Done"
    /\ exit = "fatal"
    /\ refs = "original"

(***************************************************************************)
(* C4: when the command has ended after opening the object database, the   *)
(* handle has been closed, on every path.                                  *)
(***************************************************************************)
C4_HandleClosedAtEnd == (pc = "Done" /\ dbOpened) => ~dbOpen

PhaseEdges ==
    { <<"Idle", "Validating">>, <<"Validating", "Rewriting">>,
      <<"Rewriting", "Succeeded">>, <<"Succeeded", "Checkout">>,
      <<"Succeeded", "Done">>, <<"Checkout", "Done">>,
      <<"Validating", "Failed">>, <<"Rewriting", "Failed">>,
      <<"Checkout", "Failed">>, <<"Failed", "Done">> }

C7_MergeIdempotent ==
    fnStage = "twice" =>
        LET first == fnOut[1][EntryIdx(fnOut[1], AttrName)].oid
            second == fnOut[2][EntryIdx(fnOut[2], AttrName)].oid
        IN  /\ LinesOf(second) = LinesOf(first)
            /\ NoDup(LinesOf(second))
            /\ second = first
            /\ fnOut[2] = fnOut[1]

C7_Witness ==
    /\ fnStage = "twice"
    /\ Len(ExistingLines(fnIn.tree)) = 2
    /\ LineA \in Range(ExistingLines(fnIn.tree))
    /\ "#c" \in Range(ExistingLines(fnIn.tree))
    /\ Len(fnIn.filter.exclude) > 0
    /\ Len(LinesOf(fnOut[2][EntryIdx(fnOut[2], AttrName)].oid)) = 3

C9_NonRootTreeUnchanged ==
    (last.kind = "tree" /\ last.path # "/") =>
        /\ last.out = last.in
        /\ ~last.err
        /\ last.log = {}

C9_Witness ==
    /\ last.kind = "tree"
    /\ last.path = "/sub"
    /\ EntryIdx(last.in, AttrName) # 0
    /\ last.out = last.in

(***************************************************************************)
(* C10: for a path whose base name is .gitattributes, in any directory,    *)
(* BlobFn returns the blob it was given, without error and without calling *)
(* smudge; for every other path smudge is called.                          *)
(***************************************************************************)
AttrFilePaths == {<<".gitattributes">>, <<"sub", "/", ".gitattributes">>}

C10_AttrFileBlobUnchanged ==
    last.kind = "blob" =>
        IF last.path \in AttrFilePaths
        THEN /\ last.out = last.in
             /\ ~last.err
             /\ ~last.smudged
        ELSE last.smudged

C10_Witness ==
    /\ last.kind = "blob"
    /\ last.path = <<"sub", "/", ".gitattributes">>
    /\ last.in.contents = PointerContents
    /\ last.out = last.in

====
